---- MODULE Spec2Model ----
(***************************************************************************)
(* AT91 power management (arch/arm/mach-at91/pm.c): the boot-time          *)
(* initializers (memory-controller discovery, SRAM relocation of the       *)
(* suspend routine, registration) and the suspend lifecycle callbacks      *)
(* valid / begin / enter / end plus the exported slow-clock query.         *)
(*                                                                         *)
(* Every handler is one action.  What a handler does to the outside world  *)
(* (pin control, caches, the SRAM routine, the PMC registers it reads) is  *)
(* recorded in the variable `last`, the record of the most recent call.    *)
(***************************************************************************)
EXTENDS Integers, Sequences, FiniteSets, TLC

(***************************************************************************)
(* Bounds of the model.                                                    *)
(***************************************************************************)
\* most ram controller nodes in a device tree
MaxNodes == 3
\* most "mmio-sram" nodes in a device tree
MaxSramNodes == 2
\* most calls of at91_pm_enter in one run
MaxEnter == 2
\* most bits set at once in the PMC system clock status register
MaxScsrBits == 1

(***************************************************************************)
(* C arithmetic on unsigned words.                                         *)
(***************************************************************************)
RECURSIVE BitAnd(_, _)
BitAnd(a, b) ==
    IF a = 0 \/ b = 0 THEN 0
    ELSE (a % 2) * (b % 2) + 2 * BitAnd(a \div 2, b \div 2)

RECURSIVE BitOr(_, _)
BitOr(a, b) ==
    IF a = 0 THEN b
    ELSE IF b = 0 THEN a
    ELSE (IF a % 2 = 1 \/ b % 2 = 1 THEN 1 ELSE 0) + 2 * BitOr(a \div 2, b \div 2)

Shl(x, n) == x * (2 ^ n)

Shr(x, n) == x \div (2 ^ n)

RECURSIVE SetSum(_)
SetSum(S) ==
    IF S = {} THEN 0
    ELSE LET x == CHOOSE y \in S : TRUE IN x + SetSum(S \ {x})

NULL == 0

(***************************************************************************)
(* linux/suspend.h: suspend_state_t values.                                *)
(***************************************************************************)
PM_SUSPEND_ON == 0
PM_SUSPEND_FREEZE == 1
PM_SUSPEND_STANDBY == 2
PM_SUSPEND_MEM == 3
PM_SUSPEND_MAX == 4

\* the values a caller may pass as suspend_state_t
SuspendStates ==
    {PM_SUSPEND_ON, PM_SUSPEND_FREEZE, PM_SUSPEND_STANDBY, PM_SUSPEND_MEM, PM_SUSPEND_MAX}

(***************************************************************************)
(* linux/clk/at91_pmc.h: the PMC bits pm.c tests.                          *)
(***************************************************************************)
AT91RM9200_PMC_UDP == 2
AT91RM9200_PMC_UHP == 16
AT91SAM926x_PMC_UHP == 64
AT91SAM926x_PMC_UDP == 128
AT91_PMC_PCK0 == 256
AT91_PMC_CSS == 3
AT91_PMC_CSS_SLOW == 0
AT91_PMC_UPLLEN == 65536
AT91_PMC_LOCKB == 4

(***************************************************************************)
(* pm.h: memory controller kinds and the layout of the mode word handed    *)
(* to the routine in SRAM.                                                 *)
(***************************************************************************)
AT91_MEMCTRL_MC == 0
AT91_MEMCTRL_SDRAMC == 1
AT91_MEMCTRL_DDRSDR == 2

AT91_PM_MEMTYPE_MASK == 15
AT91_PM_MODE_OFFSET == 4
AT91_PM_MODE_MASK == 15
AT91_PM_SLOW_CLOCK == 1
AT91_PM_DDRC_PID_OFFSET == 8
AT91_PM_DDRC_PID_MASK == 255
AT91_PM_IS_SAMA5D4_OFFSET == 16
AT91_PM_IS_SAMA5D4_MASK == 15
AT91_PM_SAMA5D4_BIT == 1

AT91_PM_MODE(x) == Shl(BitAnd(x, AT91_PM_MODE_MASK), AT91_PM_MODE_OFFSET)

AT91_PM_DDRC_PID(x) == Shl(BitAnd(x, AT91_PM_DDRC_PID_MASK), AT91_PM_DDRC_PID_OFFSET)

AT91_PM_IS_SAMA5D4(x) == Shl(BitAnd(x, AT91_PM_IS_SAMA5D4_MASK), AT91_PM_IS_SAMA5D4_OFFSET)

\* mach/sama5d3.h, mach/sama5d4.h: peripheral ids of the DDR controller
SAMA5D3_ID_MPDDRC == 49
SAMA5D4_ID_MPDDRC == 16

(***************************************************************************)
(* Addresses.  Each is a non-null pointer value, distinct from the others. *)
(***************************************************************************)
\* at91_pmc_base, mapped by the clock code before the initializers run
at91_pmc_base == 4096
\* of_iomap() of the k-th ram controller of the board
RamcMap(k) == 8192 + k
\* __arm_ioremap_exec() of the block allocated from the SRAM pool
SramExec == 12288


(***************************************************************************)
(* The standby routines of pm.h, as function addresses, and ramc_ids.      *)
(***************************************************************************)
at91rm9200_standby == 16385
at91sam9_sdram_standby == 16386
at91_ddr_standby == 16387

ramc_ids ==
    << [compatible |-> "atmel,at91rm9200-sdramc",  data |-> at91rm9200_standby],
       [compatible |-> "atmel,at91sam9260-sdramc", data |-> at91sam9_sdram_standby],
       [compatible |-> "atmel,at91sam9g45-ddramc", data |-> at91_ddr_standby],
       [compatible |-> "atmel,sama5d3-ddramc",     data |-> at91_ddr_standby] >>

(***************************************************************************)
(* The hardware description handed to the kernel at boot.                  *)
(***************************************************************************)
\* a node of the device tree: its compatible string, and whether of_iomap()
\* of its first register range succeeds
DtNodes ==
    [compatible : {ramc_ids[i].compatible : i \in 1..Len(ramc_ids)}, mapok : BOOLEAN]
        \cup [compatible : {"atmel,at91rm9200-pmc"}, mapok : {TRUE}]

RECURSIVE SeqsUpTo(_, _)
SeqsUpTo(S, n) ==
    IF n = 0 THEN {<<>>}
    ELSE LET shorter == SeqsUpTo(S, n - 1)
         IN shorter \cup {Append(q, x) : q \in {r \in shorter : Len(r) = n - 1}, x \in S}

DeviceTrees == SeqsUpTo(DtNodes, MaxNodes)

\* the "mmio-sram" nodes of the device tree (TRUE: of_find_device_by_node()
\* finds a platform device for the node), and the outcome of each later step
SramInputs ==
    [nodes : SeqsUpTo(BOOLEAN, MaxSramNodes), pool : BOOLEAN, alloc : BOOLEAN, map : BOOLEAN]

\* what a store beyond the end of at91_ramc_base[] does: the word it hits is
\* either unused by this file, or the store faults
OobOutcomes == {"harmless", "fault"}

(***************************************************************************)
(* State.                                                                  *)
(***************************************************************************)
VARIABLES
    phase,                  \* "boot", "running", "panic" or "fault"
    boot_log,               \* the steps of the initializer that ran, in order
    at91_pm_data,           \* pm.c:41  the profile
    at91_ramc_base,         \* pm.c:48
    ramc_stores,            \* every store of at91_dt_ramc: <<idx, value, of_id->data>>
    target_state,           \* pm.c:64
    at91_suspend_sram_fn,   \* pm.c:137
    sram_copied,            \* fncpy() copied the routine to at91_suspend_sram_fn
    sram_status,            \* how at91_pm_sram_init() ended, "none" before it ran
    cpuidle_platform_data,  \* at91_cpuidle_device.dev.platform_data
    cpuidle_registered,     \* platform_device_register(&at91_cpuidle_device) ran
    suspend_ops,            \* suspend_set_ops(&at91_pm_ops) ran
    sdramc_lpr,             \* AT91RM9200_SDRAMC_LPR of ram controller 0
    gpio_suspends,          \* calls of at91_pinctrl_gpio_suspend()
    gpio_resumes,           \* calls of at91_pinctrl_gpio_resume()
    last                    \* the most recent lifecycle call and what it did

vars ==
    << phase, boot_log, at91_pm_data, at91_ramc_base, ramc_stores, target_state,
       at91_suspend_sram_fn, sram_copied, sram_status, cpuidle_platform_data,
       cpuidle_registered, suspend_ops, sdramc_lpr, gpio_suspends, gpio_resumes, last >>

initVars ==
    << boot_log, at91_pm_data, at91_ramc_base, ramc_stores, at91_suspend_sram_fn,
       sram_copied, sram_status, cpuidle_platform_data, cpuidle_registered, suspend_ops,
       sdramc_lpr >>

\* the validator did not run
NoVerify == [ran |-> FALSE, ret |-> 0, why |-> "", reads |-> <<>>]

NoCall ==
    [op |-> "none", arg |-> 0, ret |-> 0, events |-> <<>>, verify |-> NoVerify,
     calls |-> <<>>]

\* the value the firmware left in the SDRAMC low-power register
LprFirmware == 1

Init ==
    /\ phase = "boot"
    /\ boot_log = <<>>
    /\ at91_pm_data = [uhp_udp_mask |-> 0, memctrl |-> 0, ddrc_pid |-> 0, is_sama5d4 |-> FALSE]
    /\ at91_ramc_base = [i \in 0..1 |-> NULL]
    /\ ramc_stores = <<>>
    /\ target_state = PM_SUSPEND_ON
    /\ at91_suspend_sram_fn = NULL
    /\ sram_copied = FALSE
    /\ sram_status = "none"
    /\ cpuidle_platform_data = NULL
    /\ cpuidle_registered = FALSE
    /\ suspend_ops = FALSE
    /\ sdramc_lpr = LprFirmware
    /\ gpio_suspends = 0
    /\ gpio_resumes = 0
    /\ last = NoCall


(***************************************************************************)
(* at91_dt_ramc: memory controller discovery.                              *)
(***************************************************************************)
\* of_match_node(): the entry of ramc_ids a node matches, 0 when none
OfMatch(node) ==
    IF \E i \in 1..Len(ramc_ids) : ramc_ids[i].compatible = node.compatible
    THEN CHOOSE i \in 1..Len(ramc_ids) : ramc_ids[i].compatible = node.compatible
    ELSE 0

\* at91_ramc_base[idx] = value; a store at idx > 1 lands beyond the array
RamcStore(base, idx, value) ==
    IF idx \in DOMAIN base THEN [base EXCEPT ![idx] = value] ELSE base

\* DtRamcLoop assigning standby at every match: the last matching node wins
RECURSIVE DtRamcLoop_LastWins(_, _, _, _, _, _)
DtRamcLoop_LastWins(dt, k, idx, standby, oob, r) ==
    IF k > Len(dt) THEN [r EXCEPT !.idx = idx, !.standby = standby]
    ELSE IF OfMatch(dt[k]) = 0 THEN DtRamcLoop_LastWins(dt, k + 1, idx, standby, oob, r)
    ELSE
        LET value == IF dt[k].mapok THEN RamcMap(idx + 1) ELSE NULL
            stored == [r EXCEPT !.base = RamcStore(r.base, idx, value),
                                !.stores = Append(r.stores,
                                                   <<idx, value, ramc_ids[OfMatch(dt[k])].data>>),
                                !.idx = idx, !.standby = standby]
        IN  IF idx \notin DOMAIN r.base /\ oob = "fault"
                THEN [stored EXCEPT !.halt = "fault"]
            ELSE IF value = NULL
                THEN [stored EXCEPT !.halt = "panic"]
            ELSE DtRamcLoop_LastWins(dt, k + 1, idx + 1, ramc_ids[OfMatch(dt[k])].data,
                                     oob, stored)

\* The loop of at91_dt_ramc over the nodes dt[k..], with the locals idx and
\* standby; r carries at91_ramc_base, the stores made and how the loop ended.
RECURSIVE DtRamcLoop(_, _, _, _, _, _)
DtRamcLoop(dt, k, idx, standby, oob, r) ==
    IF k > Len(dt) THEN [r EXCEPT !.idx = idx, !.standby = standby]
    ELSE IF OfMatch(dt[k]) = 0 THEN DtRamcLoop(dt, k + 1, idx, standby, oob, r)
    ELSE
        LET value == IF dt[k].mapok THEN RamcMap(idx + 1) ELSE NULL
            stored == [r EXCEPT !.base = RamcStore(r.base, idx, value),
                                !.stores = Append(r.stores,
                                                   <<idx, value, ramc_ids[OfMatch(dt[k])].data>>),
                                !.idx = idx, !.standby = standby]
        IN  IF idx \notin DOMAIN r.base /\ oob = "fault"
                THEN [stored EXCEPT !.halt = "fault"]
            ELSE IF value = NULL
                THEN [stored EXCEPT !.halt = "panic"]
            ELSE DtRamcLoop(dt, k + 1, idx + 1,
                            IF standby = NULL THEN ramc_ids[OfMatch(dt[k])].data ELSE standby,
                            oob, stored)

\* at91_pm_set_standby
at91_pm_set_standby(pdata, at91_standby) ==
    IF at91_standby # NULL THEN at91_standby ELSE pdata

\* at91_dt_ramc without the check of idx after the loop
at91_dt_ramc_NoNodeCheck(base, pdata, dt, oob) ==
    LET r == DtRamcLoop(dt, 1, 0, NULL, oob,
                        [base |-> base, stores |-> <<>>, idx |-> 0,
                         standby |-> NULL, halt |-> "", pdata |-> pdata])
    IN  IF r.halt # "" THEN r
        ELSE IF r.standby = NULL THEN r
        ELSE [r EXCEPT !.pdata = at91_pm_set_standby(pdata, r.standby)]

\* at91_dt_ramc on the device tree dt, entered with at91_ramc_base = base and
\* the cpuidle device's platform data = pdata: both afterwards (base, pdata),
\* the stores made, and whether it returned ("") or halted
at91_dt_ramc(base, pdata, dt, oob) ==
    LET r == DtRamcLoop(dt, 1, 0, NULL, oob,
                        [base |-> base, stores |-> <<>>, idx |-> 0,
                         standby |-> NULL, halt |-> "", pdata |-> pdata])
    IN  IF r.halt # "" THEN r
        ELSE IF r.idx = 0 THEN [r EXCEPT !.halt = "panic"]
        ELSE IF r.standby = NULL THEN r
        ELSE [r EXCEPT !.pdata = at91_pm_set_standby(pdata, r.standby)]

(***************************************************************************)
(* at91_pm_sram_init: relocation of the suspend routine to SRAM.           *)
(***************************************************************************)
\* the loop over the "mmio-sram" nodes: TRUE when one has a platform device
RECURSIVE SramFindDevice(_, _)
SramFindDevice(nodes, k) ==
    IF k > Len(nodes) THEN FALSE
    ELSE IF nodes[k] THEN TRUE
    ELSE SramFindDevice(nodes, k + 1)

\* at91_pm_sram_init, entered with at91_suspend_sram_fn = fn: the pointer
\* afterwards, whether fncpy() ran, and the step that ended the function
at91_pm_sram_init(fn, sram) ==
    IF ~SramFindDevice(sram.nodes, 1)
        THEN [fn |-> fn, copied |-> FALSE, status |-> "no_device"]
    ELSE IF ~sram.pool
        THEN [fn |-> fn, copied |-> FALSE, status |-> "no_pool"]
    ELSE IF ~sram.alloc
        THEN [fn |-> fn, copied |-> FALSE, status |-> "no_alloc"]
    ELSE LET mapped == IF sram.map THEN SramExec ELSE NULL
         IN  IF mapped = NULL
                 THEN [fn |-> mapped, copied |-> FALSE, status |-> "no_map"]
             ELSE [fn |-> mapped, copied |-> TRUE, status |-> "copied"]

(***************************************************************************)
(* The boot-time inputs, run through discovery and relocation.  The        *)
(* initializers run once, from the initial state: at91_ramc_base[] zeroed, *)
(* no platform data, at91_suspend_sram_fn null.                            *)
(***************************************************************************)
DiscoveryRuns ==
    {at91_dt_ramc([i \in 0..1 |-> NULL], NULL, dt, oob) :
        dt \in DeviceTrees, oob \in OobOutcomes}

SramRuns == {at91_pm_sram_init(NULL, sram) : sram \in SramInputs}

(***************************************************************************)
(* at91_pm_init and the per-SoC initializers.                              *)
(***************************************************************************)
\* at91_pm_init calling suspend_set_ops() whatever at91_suspend_sram_fn holds
at91_pm_init_AlwaysRegisters(pdata, s) ==
    LET cpuidle == pdata # NULL
    IN  [fn |-> s.fn, copied |-> s.copied, status |-> s.status,
         cpuidle |-> cpuidle, ops |-> TRUE,
         log |-> <<"sram_init">> \o (IF cpuidle THEN <<"cpuidle_register">> ELSE <<>>)
                                 \o <<"suspend_set_ops">>]

\* at91_pm_init registering the callbacks once an SRAM device was found,
\* whether or not the routine was copied
at91_pm_init_RegistersOnDevice(pdata, s) ==
    LET cpuidle == pdata # NULL
        ops == s.status # "no_device"
    IN  [fn |-> s.fn, copied |-> s.copied, status |-> s.status,
         cpuidle |-> cpuidle, ops |-> ops,
         log |-> <<"sram_init">> \o (IF cpuidle THEN <<"cpuidle_register">> ELSE <<>>)
                                 \o (IF ops THEN <<"suspend_set_ops">> ELSE <<>>)]

\* at91_pm_init, given the platform data discovery left and what
\* at91_pm_sram_init() did
at91_pm_init(pdata, s) ==
    LET cpuidle == pdata # NULL
        ops == s.fn # NULL
    IN  [fn |-> s.fn, copied |-> s.copied, status |-> s.status,
         cpuidle |-> cpuidle, ops |-> ops,
         log |-> <<"sram_init">> \o (IF cpuidle THEN <<"cpuidle_register">> ELSE <<>>)
                                 \o (IF ops THEN <<"suspend_set_ops">> ELSE <<>>)]

\* PmInit with the call of at91_pm_init() put before the profile's assignments
PmInit_ProfileLast(profile, clearLpr) ==
    /\ phase = "boot"
    /\ \E d \in DiscoveryRuns, s \in SramRuns :
        LET i == at91_pm_init(d.pdata, s)
        IN  /\ at91_ramc_base' = d.base
            /\ ramc_stores' = d.stores
            /\ IF d.halt # ""
               THEN /\ phase' = d.halt
                    /\ boot_log' = <<"dt_ramc">>
                    /\ UNCHANGED << at91_pm_data, at91_suspend_sram_fn, sram_copied,
                                    sram_status, cpuidle_platform_data,
                                    cpuidle_registered, suspend_ops, sdramc_lpr >>
               ELSE /\ phase' = "running"
                    /\ boot_log' = <<"dt_ramc">> \o i.log \o <<"profile">>
                    /\ cpuidle_platform_data' = d.pdata
                    /\ sdramc_lpr' = IF clearLpr THEN 0 ELSE sdramc_lpr
                    /\ at91_pm_data' = profile
                    /\ at91_suspend_sram_fn' = i.fn
                    /\ sram_copied' = i.copied
                    /\ sram_status' = i.status
                    /\ cpuidle_registered' = i.cpuidle
                    /\ suspend_ops' = i.ops
    /\ UNCHANGED << target_state, gpio_suspends, gpio_resumes, last >>

\* An initializer: at91_dt_ramc(), then the profile (and for the AT91RM9200
\* the write of the low-power register), then at91_pm_init().
PmInit(profile, clearLpr) ==
    /\ phase = "boot"
    /\ \E d \in DiscoveryRuns, s \in SramRuns :
        LET i == at91_pm_init(d.pdata, s)
        IN  /\ at91_ramc_base' = d.base
            /\ ramc_stores' = d.stores
            /\ IF d.halt # ""
               THEN /\ phase' = d.halt
                    /\ boot_log' = <<"dt_ramc">>
                    /\ UNCHANGED << at91_pm_data, at91_suspend_sram_fn, sram_copied,
                                    sram_status, cpuidle_platform_data,
                                    cpuidle_registered, suspend_ops, sdramc_lpr >>
               ELSE /\ phase' = "running"
                    /\ boot_log' = <<"dt_ramc", "profile">> \o i.log
                    /\ cpuidle_platform_data' = d.pdata
                    /\ sdramc_lpr' = IF clearLpr THEN 0 ELSE sdramc_lpr
                    /\ at91_pm_data' = profile
                    /\ at91_suspend_sram_fn' = i.fn
                    /\ sram_copied' = i.copied
                    /\ sram_status' = i.status
                    /\ cpuidle_registered' = i.cpuidle
                    /\ suspend_ops' = i.ops
    /\ UNCHANGED << target_state, gpio_suspends, gpio_resumes, last >>

at91rm9200_pm_init ==
    PmInit([at91_pm_data EXCEPT
                !.uhp_udp_mask = BitOr(AT91RM9200_PMC_UHP, AT91RM9200_PMC_UDP),
                !.memctrl = AT91_MEMCTRL_MC],
           TRUE)

at91sam9260_pm_init ==
    PmInit([at91_pm_data EXCEPT
                !.memctrl = AT91_MEMCTRL_SDRAMC,
                !.uhp_udp_mask = BitOr(AT91SAM926x_PMC_UHP, AT91SAM926x_PMC_UDP)],
           FALSE)

at91sam9g45_pm_init ==
    PmInit([at91_pm_data EXCEPT
                !.uhp_udp_mask = AT91SAM926x_PMC_UHP,
                !.memctrl = AT91_MEMCTRL_DDRSDR],
           FALSE)

at91sam9x5_pm_init ==
    PmInit([at91_pm_data EXCEPT
                !.uhp_udp_mask = BitOr(AT91SAM926x_PMC_UHP, AT91SAM926x_PMC_UDP),
                !.memctrl = AT91_MEMCTRL_DDRSDR],
           FALSE)

sam5d3_pm_init ==
    PmInit([at91_pm_data EXCEPT
                !.uhp_udp_mask = BitOr(AT91SAM926x_PMC_UHP, AT91SAM926x_PMC_UDP),
                !.memctrl = AT91_MEMCTRL_DDRSDR,
                !.ddrc_pid = SAMA5D3_ID_MPDDRC],
           FALSE)

sam5d4_pm_init ==
    PmInit([at91_pm_data EXCEPT
                !.uhp_udp_mask = BitOr(AT91SAM926x_PMC_UHP, AT91SAM926x_PMC_UDP),
                !.memctrl = AT91_MEMCTRL_DDRSDR,
                !.ddrc_pid = SAMA5D4_ID_MPDDRC,
                !.is_sama5d4 = TRUE],
           FALSE)


(***************************************************************************)
(* The PMC registers at91_pm_verify_clocks reads.                          *)
(***************************************************************************)
ScsrBits ==
    {AT91RM9200_PMC_UDP, AT91RM9200_PMC_UHP, AT91SAM926x_PMC_UHP, AT91SAM926x_PMC_UDP}
        \cup {Shl(AT91_PMC_PCK0, i) : i \in 0..3}

\* PCKR values: clock source in the CSS field, bit 2 is the low prescaler bit
PckrValues == {AT91_PMC_CSS_SLOW, 4, 6}

\* SR values: bit 0 (main oscillator stable) with and without LOCKB
SrValues == {1, 1 + AT91_PMC_LOCKB}

PmcFiles ==
    [scsr : {SetSum(S) : S \in {T \in SUBSET ScsrBits : Cardinality(T) <= MaxScsrBits}},
     pckr : [0..3 -> PckrValues],
     uckr : {0, AT91_PMC_UPLLEN},
     sr   : SrValues]

(***************************************************************************)
(* The lifecycle callbacks.                                                *)
(***************************************************************************)
\* at91_pm_valid_state as a range check, which lets PM_SUSPEND_FREEZE through
at91_pm_valid_state_Range(state) ==
    IF state >= PM_SUSPEND_ON /\ state <= PM_SUSPEND_MEM THEN 1 ELSE 0

at91_pm_valid_state(state) ==
    CASE state = PM_SUSPEND_ON -> 1
      [] state = PM_SUSPEND_STANDBY -> 1
      [] state = PM_SUSPEND_MEM -> 1
      [] OTHER -> 0

\* the loop of at91_pm_verify_clocks over PCK i..3: the first enabled clock
\* whose source is not the slow clock (4 when there is none), and the reads
RECURSIVE VerifyPckLoop(_, _, _)
VerifyPckLoop(regs, i, reads) ==
    IF i >= 4 THEN [i |-> 4, reads |-> reads]
    ELSE IF BitAnd(regs.scsr, Shl(AT91_PMC_PCK0, i)) = 0
        THEN VerifyPckLoop(regs, i + 1, reads)
    ELSE IF BitAnd(regs.pckr[i], AT91_PMC_CSS) # AT91_PMC_CSS_SLOW
        THEN [i |-> i, reads |-> Append(reads, <<"PCKR", i>>)]
    ELSE VerifyPckLoop(regs, i + 1, Append(reads, <<"PCKR", i>>))

\* at91_pm_verify_clocks without the test of AT91_PMC_LOCKB
at91_pm_verify_clocks_NoLockB(uhp_udp_mask, regs) ==
    IF BitAnd(regs.scsr, uhp_udp_mask) # 0
    THEN [ran |-> TRUE, ret |-> 0, why |-> "usb", reads |-> << <<"SCSR", 0>> >>]
    ELSE
        LET pck == VerifyPckLoop(regs, 0, << <<"SCSR", 0>> >>)
        IN  IF pck.i < 4
                THEN [ran |-> TRUE, ret |-> 0, why |-> "pck", reads |-> pck.reads]
            ELSE IF BitAnd(regs.uckr, AT91_PMC_UPLLEN) # 0
                THEN [ran |-> TRUE, ret |-> 0, why |-> "upll",
                      reads |-> Append(pck.reads, <<"UCKR", 0>>)]
            ELSE [ran |-> TRUE, ret |-> 1, why |-> "",
                  reads |-> Append(pck.reads, <<"UCKR", 0>>)]

at91_pm_verify_clocks(uhp_udp_mask, regs) ==
    IF BitAnd(regs.scsr, uhp_udp_mask) # 0
    THEN [ran |-> TRUE, ret |-> 0, why |-> "usb", reads |-> << <<"SCSR", 0>> >>]
    ELSE
        LET pck == VerifyPckLoop(regs, 0, << <<"SCSR", 0>> >>)
        IN  IF pck.i < 4
                THEN [ran |-> TRUE, ret |-> 0, why |-> "pck", reads |-> pck.reads]
            ELSE IF BitAnd(regs.uckr, AT91_PMC_UPLLEN) # 0
                THEN [ran |-> TRUE, ret |-> 0, why |-> "upll",
                      reads |-> Append(pck.reads, <<"UCKR", 0>>)]
            ELSE IF BitAnd(regs.sr, AT91_PMC_LOCKB) # 0
                THEN [ran |-> TRUE, ret |-> 0, why |-> "pllb",
                      reads |-> pck.reads \o << <<"UCKR", 0>>, <<"SR", 0>> >>]
            ELSE [ran |-> TRUE, ret |-> 1, why |-> "",
                  reads |-> pck.reads \o << <<"UCKR", 0>>, <<"SR", 0>> >>]

\* the runs of at91_pm_verify_clocks() over the register files, by profile mask
UsbMasks ==
    {0, BitOr(AT91RM9200_PMC_UHP, AT91RM9200_PMC_UDP), AT91SAM926x_PMC_UHP,
     BitOr(AT91SAM926x_PMC_UHP, AT91SAM926x_PMC_UDP)}

VerifyRuns ==
    [mask \in UsbMasks |-> {at91_pm_verify_clocks(mask, regs) : regs \in PmcFiles}]

at91_suspend_entering_slow_clock ==
    IF target_state = PM_SUSPEND_MEM THEN 1 ELSE 0

\* PmData setting the slow clock mode for every state but PM_SUSPEND_ON
PmData_ModeUnlessOn(state) ==
    LET w1 == at91_pm_data.memctrl
        w2 == BitOr(w1, IF state # PM_SUSPEND_ON THEN AT91_PM_MODE(AT91_PM_SLOW_CLOCK) ELSE 0)
        w3 == BitOr(w2, AT91_PM_DDRC_PID(at91_pm_data.ddrc_pid))
    IN  BitOr(w3, IF at91_pm_data.is_sama5d4
                  THEN AT91_PM_IS_SAMA5D4(AT91_PM_SAMA5D4_BIT) ELSE 0)

\* the local pm_data of at91_pm_suspend: the mode word
PmData(state) ==
    LET w1 == at91_pm_data.memctrl
        w2 == BitOr(w1, IF state = PM_SUSPEND_MEM THEN AT91_PM_MODE(AT91_PM_SLOW_CLOCK) ELSE 0)
        w3 == BitOr(w2, AT91_PM_DDRC_PID(at91_pm_data.ddrc_pid))
    IN  BitOr(w3, IF at91_pm_data.is_sama5d4
                  THEN AT91_PM_IS_SAMA5D4(AT91_PM_SAMA5D4_BIT) ELSE 0)

\* at91_pm_suspend passing at91_ramc_base[0] for both controllers
at91_pm_suspend_SameBase(state) ==
    [events |-> <<"flush_cache_all", "outer_disable", "sram_fn", "outer_resume">>,
     calls |-> << [fn |-> at91_suspend_sram_fn, pmc |-> at91_pmc_base,
                   ramc0 |-> at91_ramc_base[0], ramc1 |-> at91_ramc_base[0],
                   memctrl |-> PmData(state)] >>]

\* at91_pm_suspend returning without outer_resume(): the outer cache stays off
at91_pm_suspend_NoOuterResume(state) ==
    [events |-> <<"flush_cache_all", "outer_disable", "sram_fn">>,
     calls |-> << [fn |-> at91_suspend_sram_fn, pmc |-> at91_pmc_base,
                   ramc0 |-> at91_ramc_base[0], ramc1 |-> at91_ramc_base[1],
                   memctrl |-> PmData(state)] >>]

\* at91_pm_suspend: what it does, in order, and its call of the SRAM routine
at91_pm_suspend(state) ==
    [events |-> <<"flush_cache_all", "outer_disable", "sram_fn", "outer_resume">>,
     calls |-> << [fn |-> at91_suspend_sram_fn, pmc |-> at91_pmc_base,
                   ramc0 |-> at91_ramc_base[0], ramc1 |-> at91_ramc_base[1],
                   memctrl |-> PmData(state)] >>]

\* EnterError with the label put after the cleanup: a goto error skips it
EnterError_SkipCleanup(r) ==
    [r EXCEPT !.ret = 0]

\* EnterError handing the validator's refusal to the caller as -EBUSY
EnterError_Errno(r) ==
    [r EXCEPT !.events = r.events \o <<"target_reset", "gpio_resume">>,
              !.target = PM_SUSPEND_ON,
              !.ret = IF r.verify.ran /\ r.verify.ret = 0 THEN -16 ELSE 0]

\* the label error: of at91_pm_enter
EnterError(r) ==
    [r EXCEPT !.events = r.events \o <<"target_reset", "gpio_resume">>,
              !.target = PM_SUSPEND_ON,
              !.ret = 0]

\* EnterMem without the goto error: the validator's result is dropped
EnterMem_IgnoreVerify(state, v, r0) ==
    LET r1 == [r0 EXCEPT !.events = Append(r0.events, "verify_clocks"), !.verify = v]
        s == at91_pm_suspend(state)
    IN  EnterError([r1 EXCEPT !.events = r1.events \o s.events, !.calls = s.calls])

\* case PM_SUSPEND_MEM of at91_pm_enter, where at91_pm_verify_clocks() yields v
EnterMem(state, v, r0) ==
    LET r1 == [r0 EXCEPT !.events = Append(r0.events, "verify_clocks"), !.verify = v]
    IN  IF v.ret = 0 THEN EnterError(r1)
        ELSE LET s == at91_pm_suspend(state)
             IN  EnterError([r1 EXCEPT !.events = r1.events \o s.events,
                                       !.calls = s.calls])

\* case PM_SUSPEND_STANDBY of at91_pm_enter
EnterStandby(state, r0) ==
    LET s == at91_pm_suspend(state)
    IN  EnterError([r0 EXCEPT !.events = r0.events \o s.events, !.calls = s.calls])

\* EnterOn without its break: the case falls into a call of at91_pm_suspend()
EnterOn_FallsThrough(state, r0) ==
    EnterStandby(state, [r0 EXCEPT !.events = Append(r0.events, "cpu_do_idle")])

\* case PM_SUSPEND_ON of at91_pm_enter
EnterOn(state, r0) ==
    EnterError([r0 EXCEPT !.events = Append(r0.events, "cpu_do_idle")])

\* EnterDefault idling the processor as the case PM_SUSPEND_ON does
EnterDefault_Idles(state, r0) ==
    EnterOn(state, r0)

\* the default case of at91_pm_enter
EnterDefault(state, r0) ==
    EnterError(r0)

\* at91_pm_enter with the validator run for PM_SUSPEND_STANDBY as well
at91_pm_enter_StandbyVerifies(state, v) ==
    LET r0 == [events |-> <<"gpio_suspend">>, verify |-> NoVerify, calls |-> <<>>,
               target |-> target_state, ret |-> 0]
    IN  CASE state = PM_SUSPEND_MEM -> EnterMem(state, v, r0)
          [] state = PM_SUSPEND_STANDBY -> EnterMem(state, v, r0)
          [] state = PM_SUSPEND_ON -> EnterOn(state, r0)
          [] OTHER -> EnterDefault(state, r0)

\* at91_pm_enter, where a call of at91_pm_verify_clocks() yields v: the events
\* of the call in order, the validator's run, the calls of the SRAM routine,
\* target_state at the return and the value returned
at91_pm_enter(state, v) ==
    LET r0 == [events |-> <<"gpio_suspend">>, verify |-> NoVerify, calls |-> <<>>,
               target |-> target_state, ret |-> 0]
    IN  CASE state = PM_SUSPEND_MEM -> EnterMem(state, v, r0)
          [] state = PM_SUSPEND_STANDBY -> EnterStandby(state, r0)
          [] state = PM_SUSPEND_ON -> EnterOn(state, r0)
          [] OTHER -> EnterDefault(state, r0)

\* how often e occurs in the events ev
Count(ev, e) == Cardinality({i \in 1..Len(ev) : ev[i] = e})

\* Valid keeping the state it was asked about in target_state
Valid_Records(state) ==
    /\ phase = "running" /\ suspend_ops
    /\ target_state' = state
    /\ last' = [NoCall EXCEPT !.op = "valid", !.arg = state,
                              !.ret = at91_pm_valid_state(state)]
    /\ UNCHANGED << phase, initVars, gpio_suspends, gpio_resumes >>

Valid(state) ==
    /\ phase = "running" /\ suspend_ops
    /\ last' = [NoCall EXCEPT !.op = "valid", !.arg = state,
                              !.ret = at91_pm_valid_state(state)]
    /\ UNCHANGED << phase, initVars, target_state, gpio_suspends, gpio_resumes >>

\* at91_pm_begin that does not record the state
at91_pm_begin_Drop(state) ==
    /\ phase = "running" /\ suspend_ops
    /\ last' = [NoCall EXCEPT !.op = "begin", !.arg = state, !.ret = 0]
    /\ UNCHANGED << phase, initVars, target_state, gpio_suspends, gpio_resumes >>

at91_pm_begin(state) ==
    /\ phase = "running" /\ suspend_ops
    /\ target_state' = state
    /\ last' = [NoCall EXCEPT !.op = "begin", !.arg = state, !.ret = 0]
    /\ UNCHANGED << phase, initVars, gpio_suspends, gpio_resumes >>

Enter(state) ==
    /\ phase = "running" /\ suspend_ops
    /\ gpio_suspends < MaxEnter
    /\ \E v \in IF state = PM_SUSPEND_MEM
                 THEN VerifyRuns[at91_pm_data.uhp_udp_mask] ELSE {NoVerify} :
        LET r == at91_pm_enter(state, v)
        IN  /\ target_state' = r.target
            /\ gpio_suspends' = gpio_suspends + Count(r.events, "gpio_suspend")
            /\ gpio_resumes' = gpio_resumes + Count(r.events, "gpio_resume")
            /\ last' = [op |-> "enter", arg |-> state, ret |-> r.ret,
                        events |-> r.events, verify |-> r.verify, calls |-> r.calls]
    /\ UNCHANGED << phase, initVars >>

\* at91_pm_end that leaves target_state alone
at91_pm_end_Keep ==
    /\ phase = "running" /\ suspend_ops
    /\ last' = [NoCall EXCEPT !.op = "end"]
    /\ UNCHANGED << phase, initVars, target_state, gpio_suspends, gpio_resumes >>

at91_pm_end ==
    /\ phase = "running" /\ suspend_ops
    /\ target_state' = PM_SUSPEND_ON
    /\ last' = [NoCall EXCEPT !.op = "end"]
    /\ UNCHANGED << phase, initVars, gpio_suspends, gpio_resumes >>

\* a driver asks at91_suspend_entering_slow_clock()
Query ==
    /\ phase = "running"
    /\ last' = [NoCall EXCEPT !.op = "query", !.ret = at91_suspend_entering_slow_clock]
    /\ UNCHANGED << phase, initVars, target_state, gpio_suspends, gpio_resumes >>

Next ==
    \/ at91rm9200_pm_init
    \/ at91sam9260_pm_init
    \/ at91sam9g45_pm_init
    \/ at91sam9x5_pm_init
    \/ sam5d3_pm_init
    \/ sam5d4_pm_init
    \/ \E state \in SuspendStates : Valid(state)
    \/ \E state \in SuspendStates : at91_pm_begin(state)
    \/ \E state \in SuspendStates : Enter(state)
    \/ at91_pm_end
    \/ Query

Spec == Init /\ [][Next]_vars


(***************************************************************************)
(* at91_pm_verify_clocks on its own: one call, for any profile mask and    *)
(* any setting of the register bits it tests.                              *)
(***************************************************************************)
PmcFilesAll ==
    [scsr : {SetSum(S) : S \in SUBSET ScsrBits},
     pckr : [0..3 -> PckrValues],
     uckr : {0, AT91_PMC_UPLLEN},
     sr   : SrValues]

InitVerify ==
    /\ phase = "boot"
    /\ boot_log = <<>>
    /\ at91_pm_data \in
        {[uhp_udp_mask |-> m, memctrl |-> 0, ddrc_pid |-> 0, is_sama5d4 |-> FALSE] :
            m \in UsbMasks}
    /\ at91_ramc_base = [i \in 0..1 |-> NULL]
    /\ ramc_stores = <<>>
    /\ target_state = PM_SUSPEND_ON
    /\ at91_suspend_sram_fn = NULL
    /\ sram_copied = FALSE
    /\ sram_status = "none"
    /\ cpuidle_platform_data = NULL
    /\ cpuidle_registered = FALSE
    /\ suspend_ops = FALSE
    /\ sdramc_lpr = LprFirmware
    /\ gpio_suspends = 0
    /\ gpio_resumes = 0
    /\ last = NoCall

\* one call of at91_pm_verify_clocks() with the PMC registers holding regs
VerifyClocks ==
    /\ last.op = "none"
    /\ \E regs \in PmcFilesAll :
        LET v == at91_pm_verify_clocks(at91_pm_data.uhp_udp_mask, regs)
        IN  last' = [NoCall EXCEPT !.op = "verify_clocks", !.arg = regs,
                                   !.ret = v.ret, !.verify = v]
    /\ UNCHANGED << phase, initVars, target_state, gpio_suspends, gpio_resumes >>

SpecVerify == InitVerify /\ [][VerifyClocks]_vars

(***************************************************************************)
(* Properties.                                                             *)
(***************************************************************************)
\* the fields of a mode word, as the routine in SRAM takes them apart
ModeKind(w) == BitAnd(w, AT91_PM_MEMTYPE_MASK)

ModeFlag(w) == BitAnd(Shr(w, AT91_PM_MODE_OFFSET), AT91_PM_MODE_MASK)

ModePid(w) == BitAnd(Shr(w, AT91_PM_DDRC_PID_OFFSET), AT91_PM_DDRC_PID_MASK)

ModeSama5d4(w) == BitAnd(Shr(w, AT91_PM_IS_SAMA5D4_OFFSET), AT91_PM_IS_SAMA5D4_MASK)

\* the last call was at91_pm_enter(PM_SUSPEND_MEM) and the validator refused
ValidatorRefused ==
    /\ last.op = "enter"
    /\ last.arg = PM_SUSPEND_MEM
    /\ last.verify.ran
    /\ last.verify.ret = 0

\* C1: after every call of at91_pm_enter, whatever the state asked for and
\* whatever the validator said, target_state is PM_SUSPEND_ON and the call made
\* one GPIO suspend and one GPIO resume; over any sequence of calls the GPIO
\* suspends and the GPIO resumes are equal in number.
C1_EnterUnwinds ==
    /\ gpio_suspends = gpio_resumes
    /\ last.op = "enter" =>
        /\ target_state = PM_SUSPEND_ON
        /\ Count(last.events, "gpio_suspend") = 1
        /\ Count(last.events, "gpio_resume") = 1

C1_Witness ==
    /\ ValidatorRefused
    /\ gpio_resumes > 1
    /\ target_state = PM_SUSPEND_ON

\* C2: when at91_pm_enter(PM_SUSPEND_MEM) finds the validator refusing, the
\* routine in SRAM is not called, no cache is flushed, the outer cache is not
\* disabled and the CPU does not idle; GPIO is still resumed and target_state
\* is still reset to PM_SUSPEND_ON.
C2_RefusalSkipsSuspend ==
    ValidatorRefused =>
        /\ last.calls = <<>>
        /\ \A e \in {"sram_fn", "flush_cache_all", "outer_disable", "cpu_do_idle"} :
                Count(last.events, e) = 0
        /\ Count(last.events, "gpio_resume") = 1
        /\ Count(last.events, "target_reset") = 1
        /\ target_state = PM_SUSPEND_ON

C2_Witness ==
    /\ ValidatorRefused
    /\ last.verify.why = "usb"
    /\ Count(last.events, "gpio_resume") = 1

\* C3: right after at91_pm_begin(s), at91_suspend_entering_slow_clock() is true
\* exactly when s is PM_SUSPEND_MEM; its value changes only in a step of
\* at91_pm_begin, at91_pm_enter or at91_pm_end; and right after at91_pm_enter
\* or at91_pm_end it is false.
C3_QueryFollowsBegin ==
    /\ [](last.op = "begin" =>
            (at91_suspend_entering_slow_clock = 1 <=> last.arg = PM_SUSPEND_MEM))
    /\ [](last.op \in {"enter", "end"} => at91_suspend_entering_slow_clock = 0)
    /\ [][at91_suspend_entering_slow_clock' # at91_suspend_entering_slow_clock
            => last'.op \in {"begin", "enter", "end"}]_vars

C3_Witness ==
    /\ last.op = "query"
    /\ last.ret = 1
    /\ target_state = PM_SUSPEND_MEM

\* C4: at91_pm_valid_state(state) returns 1 exactly when state is
\* PM_SUSPEND_ON, PM_SUSPEND_STANDBY or PM_SUSPEND_MEM, and 0 otherwise.
C4_ValidStates ==
    last.op = "valid" =>
        /\ last.ret \in {0, 1}
        /\ last.ret = 1 <=> last.arg \in {PM_SUSPEND_ON, PM_SUSPEND_STANDBY, PM_SUSPEND_MEM}

C4_Witness ==
    /\ last.op = "valid"
    /\ last.arg = PM_SUSPEND_FREEZE
    /\ last.ret = 0

\* C5: in every call of the routine in SRAM made by at91_pm_enter, the slow
\* clock mode of the mode word is set exactly when the state is PM_SUSPEND_MEM.
C5_SlowClockFlag ==
    last.op = "enter" =>
        \A i \in DOMAIN last.calls :
            ModeFlag(last.calls[i].memctrl) = AT91_PM_SLOW_CLOCK
                <=> last.arg = PM_SUSPEND_MEM

C5_Witness ==
    /\ last.op = "enter"
    /\ last.arg = PM_SUSPEND_STANDBY
    /\ Len(last.calls) = 1
    /\ at91_pm_data.memctrl = AT91_MEMCTRL_SDRAMC
    /\ ModeFlag(last.calls[1].memctrl) = 0

\* C6: at91_pm_enter(PM_SUSPEND_MEM) with the validator satisfied calls the
\* routine in SRAM once, with at91_pmc_base, at91_ramc_base[0],
\* at91_ramc_base[1] and a mode word whose kind, id and variant fields are the
\* profile's memctrl, ddrc_pid and is_sama5d4, and whose slow clock mode is set.
C6_DeepSuspendCall ==
    (last.op = "enter" /\ last.arg = PM_SUSPEND_MEM /\ last.verify.ret = 1) =>
        /\ Len(last.calls) = 1
        /\ Count(last.events, "sram_fn") = 1
        /\ last.calls[1].pmc = at91_pmc_base
        /\ last.calls[1].ramc0 = at91_ramc_base[0]
        /\ last.calls[1].ramc1 = at91_ramc_base[1]
        /\ ModeKind(last.calls[1].memctrl) = at91_pm_data.memctrl
        /\ ModePid(last.calls[1].memctrl) = at91_pm_data.ddrc_pid
        /\ ModeSama5d4(last.calls[1].memctrl) = (IF at91_pm_data.is_sama5d4 THEN 1 ELSE 0)
        /\ ModeFlag(last.calls[1].memctrl) = AT91_PM_SLOW_CLOCK

C6_Witness ==
    /\ last.op = "enter"
    /\ last.arg = PM_SUSPEND_MEM
    /\ last.verify.ret = 1
    /\ Len(last.calls) = 1
    /\ at91_pm_data.memctrl = AT91_MEMCTRL_DDRSDR
    /\ at91_pm_data.ddrc_pid = SAMA5D3_ID_MPDDRC
    /\ ~at91_pm_data.is_sama5d4
    /\ at91_ramc_base[1] # NULL

\* C7: once at91_pm_sram_init has run, at91_suspend_sram_fn is null exactly
\* when one of its steps failed; suspend_set_ops() has run exactly when
\* at91_suspend_sram_fn is not null; and a failed step does not stop the
\* initializer, which goes on to the end of at91_pm_init.
C7_RelocationGatesOps ==
    /\ sram_status # "none" =>
        /\ at91_suspend_sram_fn = NULL
                <=> sram_status \in {"no_device", "no_pool", "no_alloc", "no_map"}
        /\ at91_suspend_sram_fn # NULL <=> sram_copied
        /\ phase = "running"
        /\ boot_log[3] = "sram_init"
    /\ suspend_ops <=> at91_suspend_sram_fn # NULL
    /\ suspend_ops <=> (Len(boot_log) > 0 /\ boot_log[Len(boot_log)] = "suspend_set_ops")

C7_Witness ==
    /\ phase = "running"
    /\ sram_status = "no_alloc"
    /\ at91_suspend_sram_fn = NULL
    /\ ~suspend_ops
    /\ cpuidle_registered

\* C8: when at91_dt_ramc finds no node matching ramc_ids it panics: the profile
\* is left unset, at91_pm_sram_init does not run, neither the cpuidle device
\* nor the suspend callbacks are registered, and nothing runs afterwards.
C8_NoControllerPanics ==
    (phase # "boot" /\ ramc_stores = <<>>) =>
        /\ phase = "panic"
        /\ boot_log = <<"dt_ramc">>
        /\ at91_pm_data = [uhp_udp_mask |-> 0, memctrl |-> 0, ddrc_pid |-> 0,
                           is_sama5d4 |-> FALSE]
        /\ sram_status = "none"
        /\ at91_suspend_sram_fn = NULL
        /\ ~cpuidle_registered
        /\ ~suspend_ops
        /\ ~ENABLED Next

C8_Witness ==
    /\ phase = "panic"
    /\ ramc_stores = <<>>
    /\ at91_ramc_base = [i \in 0..1 |-> NULL]

\* C9: at91_pm_enter returns 0 for every state and every outcome of the
\* validator, also when the validator refuses and when the state is unknown.
C9_EnterReturnsZero ==
    last.op = "enter" => last.ret = 0

C9_Witness ==
    /\ ValidatorRefused
    /\ last.verify.why = "pllb"
    /\ last.ret = 0

\* C10: target_state is PM_SUSPEND_ON before any callback runs; it takes a
\* value other than PM_SUSPEND_ON only in a step at91_pm_begin(s) with s other
\* than PM_SUSPEND_ON; and it is PM_SUSPEND_ON right after every at91_pm_enter
\* and at91_pm_end.
C10_ActiveOutsideTransition ==
    /\ [](last.op = "none" => target_state = PM_SUSPEND_ON)
    /\ [](last.op \in {"enter", "end"} => target_state = PM_SUSPEND_ON)
    /\ [][(target_state' # target_state /\ target_state' # PM_SUSPEND_ON)
            => (last'.op = "begin" /\ last'.arg = target_state')]_vars

C10_Witness ==
    /\ last.op = "end"
    /\ target_state = PM_SUSPEND_ON
    /\ gpio_resumes > 0

\* bit n of the word x is set
BitSet(x, n) == (x \div (2 ^ n)) % 2 = 1

\* the four conditions at91_pm_verify_clocks asks of the registers regs
UsbClocksOff(regs) ==
    \A n \in 0..11 : ~(BitSet(regs.scsr, n) /\ BitSet(at91_pm_data.uhp_udp_mask, n))

PckSlowOrOff(regs, i) ==
    BitSet(regs.scsr, 8 + i) => regs.pckr[i] % 4 = AT91_PMC_CSS_SLOW

UsbPllOff(regs) == ~BitSet(regs.uckr, 16)

PllBOff(regs) == ~BitSet(regs.sr, 2)

\* the registers a run of the validator read
ReadOf(v, reg) == {i \in 0..3 : \E k \in DOMAIN v.reads : v.reads[k] = <<reg, i>>}

\* C11: at91_pm_verify_clocks returns 1 exactly when no USB clock of the
\* profile's mask is on, every enabled programmable clock runs from the slow
\* clock, the USB PLL is off and PLL B is not locked; the conditions are tested
\* in this order, the first one violated is the one reported, and no register
\* of a later condition is read.
C11_VerifyClocks ==
    last.op = "verify_clocks" =>
        LET regs == last.arg
            v == last.verify
            pcks == \A i \in 0..3 : PckSlowOrOff(regs, i)
        IN  /\ v.ret = 1 <=>
                (UsbClocksOff(regs) /\ pcks /\ UsbPllOff(regs) /\ PllBOff(regs))
            /\ v.ret \in {0, 1}
            /\ v.why = (IF ~UsbClocksOff(regs) THEN "usb"
                        ELSE IF ~pcks THEN "pck"
                        ELSE IF ~UsbPllOff(regs) THEN "upll"
                        ELSE IF ~PllBOff(regs) THEN "pllb"
                        ELSE "")
            /\ v.reads[1] = <<"SCSR", 0>>
            /\ v.why = "usb" => Len(v.reads) = 1
            /\ v.why = "pck" =>
                /\ ReadOf(v, "UCKR") = {} /\ ReadOf(v, "SR") = {}
                /\ LET first == CHOOSE i \in 0..3 :
                                    /\ ~PckSlowOrOff(regs, i)
                                    /\ \A j \in 0..3 : j < i => PckSlowOrOff(regs, j)
                   IN  ReadOf(v, "PCKR") = {j \in 0..first : BitSet(regs.scsr, 8 + j)}
            /\ v.why = "upll" => ReadOf(v, "SR") = {}
            /\ v.why \in {"upll", "pllb", ""} =>
                ReadOf(v, "PCKR") = {j \in 0..3 : BitSet(regs.scsr, 8 + j)}

C11_Witness ==
    /\ last.op = "verify_clocks"
    /\ last.verify.why = "pck"
    /\ ~UsbPllOff(last.arg)
    /\ ~PllBOff(last.arg)
    /\ ReadOf(last.verify, "PCKR") = {1, 3}

\* the events of at91_pm_suspend() and of the label error:, as the source has them
SuspendEvents == <<"flush_cache_all", "outer_disable", "sram_fn", "outer_resume">>
CleanupEvents == <<"target_reset", "gpio_resume">>

\* the events ev without the occurrences of e
Without(ev, e) == SelectSeq(ev, LAMBDA x : x # e)

\* the positions of e in the events ev
PosOf(ev, e) == {i \in 1..Len(ev) : ev[i] = e}

\* C12: a call of at91_pm_enter for standby or suspend-to-RAM that reaches the
\* low-power path does, in this order: GPIO suspend, (suspend-to-RAM only) the
\* validator, the cache flush, the outer-cache disable, the SRAM routine, the
\* outer-cache re-enable, the reset of target_state, GPIO resume; the routine
\* runs between the disable and the re-enable, and in every call each disable
\* of the outer cache is followed by a re-enable before the return.
C12_EnterOrder ==
    last.op = "enter" =>
        /\ (last.arg \in {PM_SUSPEND_STANDBY, PM_SUSPEND_MEM} /\ last.calls # <<>>) =>
            /\ last.events =
                <<"gpio_suspend">>
                \o (IF last.arg = PM_SUSPEND_MEM THEN <<"verify_clocks">> ELSE <<>>)
                \o SuspendEvents \o CleanupEvents
            /\ \A c \in PosOf(last.events, "sram_fn") :
                /\ \E d \in PosOf(last.events, "outer_disable") : d < c
                /\ \E e \in PosOf(last.events, "outer_resume") : c < e
        /\ \A d \in PosOf(last.events, "outer_disable") :
                \E e \in PosOf(last.events, "outer_resume") : d < e
        /\ Count(last.events, "outer_disable") = Count(last.events, "outer_resume")

C12_Witness ==
    /\ last.op = "enter"
    /\ last.arg = PM_SUSPEND_MEM
    /\ Len(last.calls) = 1
    /\ Len(last.events) = 8
    /\ target_state = PM_SUSPEND_ON

\* C13: only at91_pm_enter for suspend-to-RAM runs the validator, once; a call
\* for standby calls the SRAM routine once without it, a call for
\* PM_SUSPEND_ON or for a state the switch does not know never runs it, and no
\* other operation does.  The validator's run adds nothing to what the call
\* does and changes nothing of the subsystem's state.
C13_ValidatorOnlyForMem ==
    /\ [](/\ last.op = "enter" =>
              /\ last.verify.ran <=> last.arg = PM_SUSPEND_MEM
              /\ Count(last.events, "verify_clocks")
                    = (IF last.arg = PM_SUSPEND_MEM THEN 1 ELSE 0)
              /\ last.arg = PM_SUSPEND_STANDBY =>
                    /\ Len(last.calls) = 1
                    /\ Count(last.events, "sram_fn") = 1
              /\ last.arg = PM_SUSPEND_MEM =>
                    Without(last.events, "verify_clocks") =
                        <<"gpio_suspend">>
                        \o (IF last.verify.ret = 0 THEN <<>> ELSE SuspendEvents)
                        \o CleanupEvents
          /\ last.op \in {"valid", "begin", "end", "query"} =>
              /\ ~last.verify.ran
              /\ Count(last.events, "verify_clocks") = 0)
    /\ [][(last'.op = "enter" /\ last'.verify.ran) =>
              /\ UNCHANGED << phase, initVars >>
              /\ target_state' = PM_SUSPEND_ON
              /\ gpio_suspends' - gpio_suspends = gpio_resumes' - gpio_resumes]_vars

C13_Witness ==
    /\ last.op = "enter"
    /\ last.arg = PM_SUSPEND_STANDBY
    /\ Len(last.calls) = 1
    /\ ~last.verify.ran

\* C14: a call of at91_pm_enter for PM_SUSPEND_ON waits once in cpu_do_idle()
\* and does no cache flush, no outer-cache disable or re-enable and no call of
\* the SRAM routine; the validator does not run.
C14_EnterOnIdles ==
    (last.op = "enter" /\ last.arg = PM_SUSPEND_ON) =>
        /\ Count(last.events, "cpu_do_idle") = 1
        /\ \A e \in {"flush_cache_all", "outer_disable", "outer_resume", "sram_fn",
                     "verify_clocks"} : Count(last.events, e) = 0
        /\ last.calls = <<>>
        /\ ~last.verify.ran
        /\ last.events = <<"gpio_suspend", "cpu_do_idle">> \o CleanupEvents

C14_Witness ==
    /\ last.op = "enter"
    /\ last.arg = PM_SUSPEND_ON
    /\ Count(last.events, "cpu_do_idle") = 1
    /\ gpio_resumes = 1

\* the states the switch of at91_pm_enter has a case for
EnterCases == {PM_SUSPEND_MEM, PM_SUSPEND_STANDBY, PM_SUSPEND_ON}

\* C15 as stated: a call of at91_pm_enter for a state without a case does
\* nothing but the cleanup, the reset of target_state and GPIO resume.
C15_OnlyCleanup ==
    (last.op = "enter" /\ last.arg \notin EnterCases) =>
        last.events = CleanupEvents

\* C15: a call of at91_pm_enter for a state without a case suspends the GPIOs
\* as every call does and then goes to the cleanup: no validator, no cache
\* flush, no outer-cache disable, no SRAM routine and no idle wait happen, and
\* after the GPIO suspend the call does only the reset of target_state and
\* GPIO resume.
C15_EnterDefault ==
    (last.op = "enter" /\ last.arg \notin EnterCases) =>
        /\ last.events = <<"gpio_suspend">> \o CleanupEvents
        /\ last.calls = <<>>
        /\ ~last.verify.ran
        /\ last.ret = 0
        /\ target_state = PM_SUSPEND_ON

C15_Witness ==
    /\ last.op = "enter"
    /\ last.arg = PM_SUSPEND_MAX
    /\ Len(last.events) = 3
    /\ gpio_suspends = 1

\* C16: discovery stores the mapped base of the k-th matching node at index k
\* of at91_ramc_base, and whatever the number of matching nodes it writes at
\* most two entries, never at an index outside {0, 1}.
C16_StoresInBounds ==
    /\ Len(ramc_stores) <= 2
    /\ \A k \in DOMAIN ramc_stores :
        /\ ramc_stores[k][1] = k - 1
        /\ ramc_stores[k][1] \in {0, 1}
        /\ ramc_stores[k][2] \in {NULL, RamcMap(k)}

\* the .data of the first pass of the loop of at91_dt_ramc that had one, NULL
\* when no pass had
FirstDeclared(stores) ==
    LET declared == {k \in DOMAIN stores : stores[k][3] # NULL}
    IN  IF declared = {} THEN NULL
        ELSE stores[CHOOSE k \in declared : \A j \in declared : k <= j][3]

\* C17: the standby routine discovery resolves is that of the first matching
\* node that has one, later matches do not replace it; the cpuidle device is
\* registered exactly when a routine was resolved and carries it as platform
\* data; when nodes match but none has a routine, the initializer goes on to
\* at91_pm_init() and does not register the device.
C17_StandbyCallback ==
    /\ phase = "running" =>
        /\ ramc_stores # <<>>
        /\ cpuidle_platform_data = FirstDeclared(ramc_stores)
        /\ cpuidle_registered <=> FirstDeclared(ramc_stores) # NULL
        /\ cpuidle_registered <=> Count(boot_log, "cpuidle_register") = 1
        /\ FirstDeclared(ramc_stores) = NULL =>
            /\ ~cpuidle_registered
            /\ Count(boot_log, "sram_init") = 1
    /\ phase # "running" => ~cpuidle_registered

C17_Witness ==
    /\ phase = "running"
    /\ Len(ramc_stores) = 2
    /\ ramc_stores[1][3] = at91sam9_sdram_standby
    /\ ramc_stores[2][3] = at91_ddr_standby
    /\ cpuidle_registered
    /\ cpuidle_platform_data = at91sam9_sdram_standby

\* the profiles the six initializers write
VariantProfiles ==
    LET p(mask, kind, pid, d4) ==
            [uhp_udp_mask |-> mask, memctrl |-> kind, ddrc_pid |-> pid, is_sama5d4 |-> d4]
        both == BitOr(AT91SAM926x_PMC_UHP, AT91SAM926x_PMC_UDP)
    IN  {p(BitOr(AT91RM9200_PMC_UHP, AT91RM9200_PMC_UDP), AT91_MEMCTRL_MC, 0, FALSE),
         p(both, AT91_MEMCTRL_SDRAMC, 0, FALSE),
         p(AT91SAM926x_PMC_UHP, AT91_MEMCTRL_DDRSDR, 0, FALSE),
         p(both, AT91_MEMCTRL_DDRSDR, 0, FALSE),
         p(both, AT91_MEMCTRL_DDRSDR, SAMA5D3_ID_MPDDRC, FALSE),
         p(both, AT91_MEMCTRL_DDRSDR, SAMA5D4_ID_MPDDRC, TRUE)}

\* every a of the log comes before every b
Before(log, a, b) == \A i \in PosOf(log, a), j \in PosOf(log, b) : i < j

\* C18: an initializer sets all the profile fields of its variant before
\* suspend_set_ops() registers the callbacks, and its steps run in the order
\* discovery, SRAM relocation, registration of the cpuidle device when there is
\* platform data, registration with the suspend framework; so every call of
\* at91_pm_enter finds the profile of a variant.
C18_InitOrder ==
    /\ \A e \in {"dt_ramc", "profile", "sram_init", "cpuidle_register", "suspend_set_ops"} :
            Count(boot_log, e) <= 1
    /\ Before(boot_log, "dt_ramc", "sram_init")
    /\ Before(boot_log, "sram_init", "cpuidle_register")
    /\ Before(boot_log, "sram_init", "suspend_set_ops")
    /\ Before(boot_log, "cpuidle_register", "suspend_set_ops")
    /\ Before(boot_log, "profile", "suspend_set_ops")
    /\ suspend_ops <=> Count(boot_log, "suspend_set_ops") = 1
    /\ suspend_ops =>
        /\ Count(boot_log, "profile") = 1
        /\ Count(boot_log, "dt_ramc") = 1
        /\ Count(boot_log, "sram_init") = 1
        /\ at91_pm_data \in VariantProfiles
    /\ last.op = "enter" => (suspend_ops /\ at91_pm_data \in VariantProfiles)

C18_Witness ==
    /\ last.op = "enter"
    /\ boot_log = <<"dt_ramc", "profile", "sram_init", "cpuidle_register", "suspend_set_ops">>
    /\ at91_pm_data.is_sama5d4
    /\ at91_pm_data.ddrc_pid = SAMA5D4_ID_MPDDRC

C20_LifecycleFrame ==
    [][phase = "running" =>
          /\ phase' = "running"
          /\ last'.op \in {"valid", "begin", "enter", "end", "query"}
          /\ at91_suspend_sram_fn' = at91_suspend_sram_fn
          /\ at91_ramc_base' = at91_ramc_base
          /\ at91_pm_data' = at91_pm_data
          /\ sram_copied' = sram_copied
          /\ last'.op \in {"valid", "query"} => target_state' = target_state]_vars

C20_Witness ==
    /\ last.op = "query"
    /\ last.ret = 1
    /\ target_state = PM_SUSPEND_MEM
    /\ gpio_resumes = 1
    /\ at91_suspend_sram_fn = SramExec
    /\ at91_pm_data.memctrl = AT91_MEMCTRL_SDRAMC

====
